---- MODULE Spec2Model ----
(***************************************************************************)
(* Model lifecycle and background-training orchestration of the            *)
(* AquaForecast API: the model registry (ModelService), the training task  *)
(* ledger and the training thread (_run_training_task_in_thread together   *)
(* with ModelTrainingService.train_model), and the provenance rows         *)
(* (TrainingSession.farm_data_ids).                                        *)
(*                                                                         *)
(* Every database transaction of the code is one atomic step.  Timestamps  *)
(* are logical: created_at is the creation sequence number of a model row, *)
(* deployed_at the sequence number of the deployment that set it (0 is     *)
(* NULL).  UUIDs (models, tasks, farm data) are drawn in increasing order   *)
(* and never reused.                                                       *)
(***************************************************************************)
EXTENDS Integers, FiniteSets, Sequences, TLC

\* ---------------------------------------------------------------- bounds
MaxModels == 3
MaxTasks == 2
MaxDeploys == 2
MaxNotes == 1
MaxSamples == 4
MaxEpochs == 1
MaxConsumers == 2
MaxRequests == 3
MaxBudget == 3

\* ------------------------------------------------------ program constants
\* Floor of the unused pool (the code's 100), scaled to the sample universe.
MIN_SAMPLES == 2

\* wait_for_update(timeout=30.0), in seconds; one tick of the model's clock
TIMEOUT == 30
\* recent_cutoff = utcnow() - timedelta(minutes=5)
RECENT_MINUTES == 5
\* The trailing window of the stream in ticks
WINDOW == (RECENT_MINUTES * 60) \div TIMEOUT

NoId == 0
ModelIds == 1..MaxModels
TaskIds == 1..MaxTasks
Samples == 1..MaxSamples
Consumers == 1..MaxConsumers
Requests == 1..MaxRequests
\* epochs of a retrain request (the schema asks for 1..500)
Budgets == 1..MaxBudget
DEFAULT_VERSION == "0.0.0-default"
Versions == {"1.0.0", "2.0.0"}
\* A request body without the base_model_id field
Missing == 0 - 1
\* base_model_id values of the retrain requests: absent, the empty string
\* (NoId), and the first uuid
BaseInputs == {Missing, NoId, 1}

\* Strings that the code compares by order are sequences of code points; the
\* empty sequence is None (and the empty string, equally falsy)
V_1_0_0 == <<49, 46, 48, 46, 48>>
V_2_0_0 == <<50, 46, 48, 46, 48>>
V_10_0_0 == <<49, 48, 46, 48, 46, 48>>
\* app_version values of the check-update requests
AppVersions == {<<>>, V_1_0_0, V_2_0_0, V_10_0_0}
\* min_app_version values of the registered models
MinAppVersions == {<<>>, V_2_0_0}

\* The files of a trained model in the object store
Kinds == {"tflite", "keras", "scaler"}

ModelStatus == {"training", "completed", "failed", "deployed", "archived"}
TrainingTaskStatus == {"pending", "running", "completed", "failed"}

VARIABLES
    models,           \* model_versions table: id -> row
    sessions,         \* training_sessions table: set of rows
    tasks,            \* training_tasks table: id -> row
    farm_data,        \* ids of FarmData rows with weight, length and verified
    nextModel,        \* next fresh model uuid
    nextTask,         \* next fresh task uuid
    deploys,          \* logical clock of deployed_at
    pc,               \* position of each training thread
    unused_data_ids,  \* train_model local: the fetched pool
    new_model,        \* train_model local: id of the added ModelVersion
    sess,             \* state of the thread's SQLAlchemy session task_db
    raised,           \* train_model raised in this thread
    seen,             \* model ids of the TrainingSession rows read at fetch
    sessionSaw,       \* per committed session: `seen` of the run that wrote it
    resp,             \* response of the API call made in this step
    loop_queue,       \* per task: coroutines scheduled on the event loop, in order
    age,              \* per task: ticks since completed_at was written
    event,            \* TrainingEventBus._event is set
    active_tasks,     \* TrainingEventBus._active_tasks
    cpc,              \* position of each stream consumer (event_generator)
    last_states,      \* event_generator local: task id -> tuple last emitted
    out,              \* what the generator yields in the current cycle
    waited,           \* ticks the consumer has spent in its current wait
    owed,             \* a notification set the event since the consumer's last wake
    last_emitted,     \* per consumer and task: the tuple of the last data event
    df,               \* train_model local: the rows of the DataFrame
    epochs,           \* train_params["epochs"]: the epoch budget of the run
    loop_closed,      \* the event loop given to the threads no longer takes work
    txn               \* per request: the open transaction of a deploy call

vars == <<models, sessions, tasks, farm_data, nextModel, nextTask, deploys,
          pc, unused_data_ids, new_model, sess, raised, seen, sessionSaw, resp,
          loop_queue, age, event, active_tasks, cpc, last_states, out, waited,
          owed, last_emitted, df, epochs, loop_closed, txn>>

registryVars == <<models, sessions, deploys, nextModel>>
threadVars == <<pc, unused_data_ids, df, epochs, new_model, sess, raised, seen>>
busVars == <<event, active_tasks>>
consumerVars == <<cpc, last_states, out, waited, owed, last_emitted>>
streamVars == <<loop_queue, age, busVars, consumerVars>>

\* ------------------------------------------------------------------ rows
NoModel ==
    [exists |-> FALSE, version |-> "", status |-> "training",
     is_deployed |-> FALSE, is_active |-> FALSE, created_at |-> 0,
     deployed_at |-> 0, notes |-> 0, has_files |-> FALSE, min_app_version |-> <<>>]

NoTask ==
    [exists |-> FALSE, base_model_id |-> NoId, new_version |-> "",
     status |-> "pending", progress_percentage |-> 0, current_stage |-> "",
     error_message |-> "NULL", result_model_id |-> NoId, completed_at |-> FALSE,
     current_epoch |-> 0]

\* The tuple the stream compares: (status, progress, epoch, stage)
NoState ==
    [status |-> "none", progress_percentage |-> 0, current_epoch |-> 0,
     current_stage |-> ""]

NoOutput == [data |-> {}, heartbeat |-> FALSE]

\* The database session of a request that has not called deploy_model yet
NoTxn ==
    [state |-> "idle", model_id |-> NoId, loaded_notes |-> 0,
     current_deployed_models |-> {}, notes |-> FALSE, read_at |-> 0]

NoResp == [op |-> "none", id |-> NoId, result |-> "none"]

Response(op, id, result) == [op |-> op, id |-> id, result |-> result]

ExistingModels == {m \in ModelIds : models[m].exists}

\* ------------------------------------------------------ registry queries
get_model_by_id(model_id) ==
    IF model_id \in ModelIds /\ models[model_id].exists THEN model_id ELSE NoId

\* filter(is_deployed == True).order_by(deployed_at.desc()).first()
get_deployed_model ==
    LET D == {m \in ExistingModels : models[m].is_deployed}
    IN  IF D = {} THEN NoId
        ELSE CHOOSE m \in D :
                \A o \in D : \/ models[o].deployed_at < models[m].deployed_at
                             \/ (models[o].deployed_at = models[m].deployed_at /\ o >= m)

\* Mutation of get_latest_model: the newest active model wins over the deployed one
get_latest_model_newest_active ==
    LET A == {m \in ExistingModels : models[m].is_active}
    IN  IF A # {}
        THEN CHOOSE m \in A : \A o \in A : models[o].created_at <= models[m].created_at
        ELSE get_deployed_model

\* deployed model, else filter(is_active == True).order_by(created_at.desc()).first()
get_latest_model ==
    IF get_deployed_model # NoId THEN get_deployed_model
    ELSE LET A == {m \in ExistingModels : models[m].is_active}
         IN  IF A = {} THEN NoId
             ELSE CHOOSE m \in A : \A o \in A : models[o].created_at <= models[m].created_at

get_model_by_version(version) ==
    {m \in ExistingModels : models[m].version = version}

\* Python's str order: code point by code point, a proper prefix is smaller
RECURSIVE StrLess(_, _)
StrLess(a, b) ==
    IF b = <<>> THEN FALSE
    ELSE IF a = <<>> THEN TRUE
    ELSE IF Head(a) # Head(b) THEN Head(a) < Head(b)
    ELSE StrLess(Tail(a), Tail(b))

\* ModelService.is_version_compatible: app_version >= model.min_app_version
is_version_compatible(model, app_version) ==
    IF models[model].min_app_version = <<>> \/ app_version = <<>>
    THEN TRUE
    ELSE ~StrLess(app_version, models[model].min_app_version)

\* Mutation of check_for_update: every candidate is reported as an update
check_for_update_always(current_version) ==
    LET latest_model == IF get_deployed_model # NoId THEN get_deployed_model
                        ELSE get_latest_model
    IN  [update_available |-> latest_model # NoId, latest_model |-> latest_model]

\* ModelService.check_for_update: (update_available, latest_model)
check_for_update(current_version) ==
    LET latest_model == IF get_deployed_model # NoId THEN get_deployed_model
                        ELSE get_latest_model
    IN  IF latest_model = NoId
        THEN [update_available |-> FALSE, latest_model |-> NoId]
        ELSE [update_available |-> models[latest_model].version # current_version,
              latest_model |-> latest_model]

\* ---------------------------------------------------------- provenance
UsedIds == UNION {s.farm_data_ids : s \in sessions}

\* Mutation of get_unused_farm_data: the used ids are not subtracted
get_unused_farm_data_ignoring_used == farm_data

get_unused_farm_data == farm_data \ UsedIds

\* ------------------------------------------------------------------ Init
InitTables ==
    /\ models = [m \in ModelIds |-> NoModel]
    /\ sessions = {}
    /\ tasks = [t \in TaskIds |-> NoTask]
    /\ nextModel = 1
    /\ nextTask = 1
    /\ deploys = 0
    /\ pc = [t \in TaskIds |-> "idle"]
    /\ unused_data_ids = [t \in TaskIds |-> {}]
    /\ df = [t \in TaskIds |-> {}]
    /\ epochs = [t \in TaskIds |-> 0]
    /\ loop_closed = FALSE
    /\ txn = [r \in Requests |-> NoTxn]
    /\ new_model = [t \in TaskIds |-> NoId]
    /\ sess = [t \in TaskIds |-> "clean"]
    /\ raised = [t \in TaskIds |-> FALSE]
    /\ seen = [t \in TaskIds |-> {}]
    /\ sessionSaw = [m \in ModelIds |-> {}]
    /\ resp = NoResp

\* The event bus at import, no stream connected
InitStreamVars ==
    /\ loop_queue = [t \in TaskIds |-> <<>>]
    /\ age = [t \in TaskIds |-> 0]
    /\ event = FALSE
    /\ active_tasks = {}
    /\ cpc = [c \in Consumers |-> "off"]
    /\ last_states = [c \in Consumers |-> [t \in TaskIds |-> NoState]]
    /\ out = [c \in Consumers |-> NoOutput]
    /\ waited = [c \in Consumers |-> 0]
    /\ owed = [c \in Consumers |-> FALSE]
    /\ last_emitted = [c \in Consumers |-> [t \in TaskIds |-> NoState]]

\* The empty database, without farm data or with the readings already synced
Init ==
    /\ InitTables
    /\ InitStreamVars
    /\ farm_data \in {{}, Samples}

\* ------------------------------------------------------------- bootstrap
\* startup.create_default_baseline_model: idempotent creation of the baseline
create_default_baseline_model ==
    /\ resp' = NoResp
    /\ UNCHANGED <<sessions, tasks, farm_data, loop_closed, txn, nextTask, deploys, threadVars, sessionSaw, streamVars>>
    /\ IF get_model_by_version(DEFAULT_VERSION) # {}
       THEN UNCHANGED <<models, nextModel>>
       ELSE /\ nextModel <= MaxModels
            /\ models' = [models EXCEPT ![nextModel] =
                 [exists |-> TRUE, version |-> DEFAULT_VERSION, status |-> "completed",
                  is_deployed |-> FALSE, is_active |-> FALSE, created_at |-> nextModel,
                  deployed_at |-> 0, notes |-> 0, has_files |-> FALSE,
                  min_app_version |-> <<>>]]
            /\ nextModel' = nextModel + 1

\* ---------------------------------------------------------- registry ops
\* Mutation of deploy_model: the currently deployed models are not unset
deploy_model_keeps_others(model_id, notes) ==
    /\ UNCHANGED <<sessions, tasks, farm_data, loop_closed, txn, nextTask, nextModel, threadVars, sessionSaw, streamVars>>
    /\ IF get_model_by_id(model_id) = NoId
       THEN /\ resp' = Response("deploy", model_id, "not_found")
            /\ UNCHANGED <<models, deploys>>
       ELSE IF models[model_id].status # "completed"
       THEN /\ resp' = Response("deploy", model_id, "invalid_state")
            /\ UNCHANGED <<models, deploys>>
       ELSE /\ deploys < MaxDeploys
            /\ deploys' = deploys + 1
            /\ models' = [models EXCEPT ![model_id].is_deployed = TRUE,
                                        ![model_id].status = "deployed",
                                        ![model_id].deployed_at = deploys + 1]
            /\ resp' = Response("deploy", model_id, "ok")

\* Mutation of deploy_model: the status check is dropped
deploy_model_any_status(model_id, notes) ==
    /\ UNCHANGED <<sessions, tasks, farm_data, loop_closed, txn, nextTask, nextModel, threadVars, sessionSaw, streamVars>>
    /\ IF get_model_by_id(model_id) = NoId
       THEN /\ resp' = Response("deploy", model_id, "not_found")
            /\ UNCHANGED <<models, deploys>>
       ELSE IF models[model_id].is_deployed
       THEN /\ resp' = Response("deploy", model_id, "ok")
            /\ UNCHANGED <<models, deploys>>
       ELSE /\ deploys < MaxDeploys
            /\ deploys' = deploys + 1
            /\ models' = [m \in ModelIds |->
                 IF m = model_id
                 THEN [models[m] EXCEPT !.is_deployed = TRUE, !.status = "deployed",
                                        !.deployed_at = deploys + 1]
                 ELSE IF models[m].exists /\ models[m].is_deployed
                 THEN [models[m] EXCEPT !.is_deployed = FALSE, !.status = "completed"]
                 ELSE models[m]]
            /\ resp' = Response("deploy", model_id, "ok")

\* ModelService.deploy_model, called by the /deploy endpoint
deploy_model(model_id, notes) ==
    /\ UNCHANGED <<sessions, tasks, farm_data, loop_closed, txn, nextTask, nextModel, threadVars, sessionSaw, streamVars>>
    /\ IF get_model_by_id(model_id) = NoId
       THEN /\ resp' = Response("deploy", model_id, "not_found")
            /\ UNCHANGED <<models, deploys>>
       ELSE IF models[model_id].status # "completed"
       THEN /\ resp' = Response("deploy", model_id, "invalid_state")
            /\ UNCHANGED <<models, deploys>>
       ELSE IF models[model_id].is_deployed
       THEN /\ resp' = Response("deploy", model_id, "ok")
            /\ UNCHANGED <<models, deploys>>
       ELSE /\ deploys < MaxDeploys
            /\ notes => models[model_id].notes < MaxNotes
            /\ deploys' = deploys + 1
            /\ models' = [m \in ModelIds |->
                 IF m = model_id
                 THEN [models[m] EXCEPT !.is_deployed = TRUE, !.status = "deployed",
                                        !.deployed_at = deploys + 1,
                                        !.notes = IF notes THEN @ + 1 ELSE @]
                 ELSE IF models[m].exists /\ models[m].is_deployed
                 THEN [models[m] EXCEPT !.is_deployed = FALSE, !.status = "completed"]
                 ELSE models[m]]
            /\ resp' = Response("deploy", model_id, "ok")

\* ModelService.deploy_model in its own database session, lines 105-121: the
\* statements before the commit.  Each query reads what is committed when it
\* runs; the rows it loads stay in the session as they were read.
deploy_model_query(r, model_id, notes) ==
    /\ txn[r].state = "idle"
    /\ resp' = IF get_model_by_id(model_id) = NoId
               THEN Response("deploy", model_id, "not_found")
               ELSE IF models[model_id].status # "completed"
               THEN Response("deploy", model_id, "invalid_state")
               ELSE IF models[model_id].is_deployed
               THEN Response("deploy", model_id, "ok")
               ELSE NoResp
    /\ txn' = [txn EXCEPT ![r] =
         IF get_model_by_id(model_id) = NoId \/ models[model_id].status # "completed"
         THEN [NoTxn EXCEPT !.state = "failed", !.model_id = model_id]
         ELSE IF models[model_id].is_deployed
         THEN [NoTxn EXCEPT !.state = "returned", !.model_id = model_id]
         ELSE [state |-> "open", model_id |-> model_id,
               loaded_notes |-> models[model_id].notes,
               current_deployed_models |-> {m \in ExistingModels : models[m].is_deployed},
               notes |-> notes, read_at |-> deploys]]
    /\ UNCHANGED <<models, deploys, sessions, tasks, farm_data, loop_closed, nextTask, nextModel,
                   threadVars, sessionSaw, streamVars>>

\* ModelService.deploy_model, lines 123-136: the loaded rows are changed and
\* db.commit() writes them in one transaction: the rows read as deployed are
\* unset, the target is set.  When another deploy committed since the rows
\* were read, an isolation level above the default makes the commit fail
\* instead; the session factory decides which.
deploy_model_commit(r) ==
    /\ txn[r].state = "open"
    /\ \/ /\ models' = [m \in ModelIds |->
                IF m = txn[r].model_id
                THEN [models[m] EXCEPT !.is_deployed = TRUE, !.status = "deployed",
                                       !.deployed_at = deploys + 1,
                                       !.notes = IF txn[r].notes
                                                 THEN txn[r].loaded_notes + 1 ELSE @]
                ELSE IF m \in txn[r].current_deployed_models
                THEN [models[m] EXCEPT !.is_deployed = FALSE, !.status = "completed"]
                ELSE models[m]]
          /\ deploys' = deploys + 1
          /\ txn' = [txn EXCEPT ![r].state = "committed"]
          /\ resp' = Response("deploy", txn[r].model_id, "ok")
       \/ /\ deploys # txn[r].read_at
          /\ txn' = [txn EXCEPT ![r].state = "failed"]
          /\ resp' = Response("deploy", txn[r].model_id, "conflict")
          /\ UNCHANGED <<models, deploys>>
    /\ UNCHANGED <<sessions, tasks, farm_data, loop_closed, nextTask, nextModel,
                   threadVars, sessionSaw, streamVars>>

\* Mutation of undeploy_model: the flag is cleared and the status is left
undeploy_model_keeps_status(model_id) ==
    /\ UNCHANGED <<sessions, tasks, farm_data, loop_closed, txn, nextTask, nextModel, deploys, threadVars, sessionSaw, streamVars>>
    /\ IF get_model_by_id(model_id) = NoId
       THEN /\ resp' = Response("undeploy", model_id, "not_found")
            /\ UNCHANGED models
       ELSE IF ~models[model_id].is_deployed
       THEN /\ resp' = Response("undeploy", model_id, "ok")
            /\ UNCHANGED models
       ELSE /\ models' = [models EXCEPT ![model_id].is_deployed = FALSE]
            /\ resp' = Response("undeploy", model_id, "ok")

\* ModelService.undeploy_model
undeploy_model(model_id) ==
    /\ UNCHANGED <<sessions, tasks, farm_data, loop_closed, txn, nextTask, nextModel, deploys, threadVars, sessionSaw, streamVars>>
    /\ IF get_model_by_id(model_id) = NoId
       THEN /\ resp' = Response("undeploy", model_id, "not_found")
            /\ UNCHANGED models
       ELSE IF ~models[model_id].is_deployed
       THEN /\ resp' = Response("undeploy", model_id, "ok")
            /\ UNCHANGED models
       ELSE /\ models' = [models EXCEPT ![model_id].is_deployed = FALSE,
                                        ![model_id].status = "completed"]
            /\ resp' = Response("undeploy", model_id, "ok")

\* Mutation of archive_model: a deployed model is archived too
archive_model_even_deployed(model_id) ==
    /\ UNCHANGED <<sessions, tasks, farm_data, loop_closed, txn, nextTask, nextModel, deploys, threadVars, sessionSaw, streamVars>>
    /\ IF get_model_by_id(model_id) = NoId
       THEN /\ resp' = Response("archive", model_id, "not_found")
            /\ UNCHANGED models
       ELSE /\ models' = [models EXCEPT ![model_id].status = "archived",
                                        ![model_id].is_active = FALSE]
            /\ resp' = Response("archive", model_id, "ok")

\* Mutation of archive_model: the provenance of the archived model is dropped
archive_model_drops_sessions(model_id) ==
    /\ UNCHANGED <<tasks, farm_data, loop_closed, txn, nextTask, nextModel, deploys, threadVars, sessionSaw, streamVars>>
    /\ IF get_model_by_id(model_id) = NoId
       THEN /\ resp' = Response("archive", model_id, "not_found")
            /\ UNCHANGED <<models, sessions>>
       ELSE IF models[model_id].is_deployed
       THEN /\ resp' = Response("archive", model_id, "invalid_state")
            /\ UNCHANGED <<models, sessions>>
       ELSE /\ models' = [models EXCEPT ![model_id].status = "archived",
                                        ![model_id].is_active = FALSE]
            /\ sessions' = {s \in sessions : s.model_version_id # model_id}
            /\ resp' = Response("archive", model_id, "ok")

\* ModelService.archive_model
archive_model(model_id) ==
    /\ UNCHANGED <<sessions, tasks, farm_data, loop_closed, txn, nextTask, nextModel, deploys, threadVars, sessionSaw, streamVars>>
    /\ IF get_model_by_id(model_id) = NoId
       THEN /\ resp' = Response("archive", model_id, "not_found")
            /\ UNCHANGED models
       ELSE IF models[model_id].is_deployed
       THEN /\ resp' = Response("archive", model_id, "invalid_state")
            /\ UNCHANGED models
       ELSE /\ models' = [models EXCEPT ![model_id].status = "archived",
                                        ![model_id].is_active = FALSE]
            /\ resp' = Response("archive", model_id, "ok")

\* The object-store files a row names: tflite_cloudinary_id, keras_cloudinary_id
\* and preprocessing_config['scaler_cloudinary_id'] (none for the baseline)
StorageFiles(model_id) ==
    IF models[model_id].has_files THEN Kinds ELSE {}

\* The summary delete_model returns, and the errors it raises
DeleteResponse(model_id, result, sessions_count, tasks_count, deleted, errors) ==
    [op |-> "delete", id |-> model_id, result |-> result,
     deleted_training_sessions |-> sessions_count,
     deleted_training_tasks |-> tasks_count,
     storage_files_deleted |-> deleted, storage_errors |-> errors]

\* Mutation of delete_model: a file that cannot be deleted aborts the deletion
delete_model_aborting(model_id) ==
    /\ UNCHANGED <<farm_data, loop_closed, txn, nextTask, nextModel, deploys, threadVars, sessionSaw, streamVars>>
    /\ IF get_model_by_id(model_id) = NoId
       THEN /\ resp' = DeleteResponse(model_id, "not_found", 0, 0, {}, {})
            /\ UNCHANGED <<models, sessions, tasks>>
       ELSE IF models[model_id].is_deployed
       THEN /\ resp' = DeleteResponse(model_id, "invalid_state", 0, 0, {}, {})
            /\ UNCHANGED <<models, sessions, tasks>>
       ELSE \E raising \in SUBSET StorageFiles(model_id) :
            IF StorageFiles(model_id) \cap raising # {}
            THEN /\ resp' = DeleteResponse(model_id, "storage_error", 0, 0, {},
                                           StorageFiles(model_id) \cap raising)
                 /\ UNCHANGED <<models, sessions, tasks>>
            ELSE /\ tasks' = [t \in TaskIds |->
                      IF tasks[t].exists /\ tasks[t].result_model_id = model_id
                      THEN NoTask ELSE tasks[t]]
                 /\ models' = [models EXCEPT ![model_id] = NoModel]
                 /\ sessions' = {s \in sessions : s.model_version_id # model_id}
                 /\ resp' = DeleteResponse(model_id, "ok",
                        Cardinality({s \in sessions : s.model_version_id = model_id}),
                        Cardinality({t \in TaskIds : tasks[t].exists
                                       /\ tasks[t].result_model_id = model_id}),
                        StorageFiles(model_id), {})

\* ModelService.delete_model: the tasks whose result_model_id is the model, the
\* files in the object store (cloudinary_storage.delete_model raises for the
\* files in `raising`; each call has its own try/except), the row and its
\* sessions (cascade), in one commit
delete_model(model_id) ==
    /\ UNCHANGED <<farm_data, loop_closed, txn, nextTask, nextModel, deploys, threadVars, sessionSaw, streamVars>>
    /\ IF get_model_by_id(model_id) = NoId
       THEN /\ resp' = DeleteResponse(model_id, "not_found", 0, 0, {}, {})
            /\ UNCHANGED <<models, sessions, tasks>>
       ELSE IF models[model_id].is_deployed
       THEN /\ resp' = DeleteResponse(model_id, "invalid_state", 0, 0, {}, {})
            /\ UNCHANGED <<models, sessions, tasks>>
       ELSE \E raising \in SUBSET StorageFiles(model_id) :
            /\ tasks' = [t \in TaskIds |->
                 IF tasks[t].exists /\ tasks[t].result_model_id = model_id
                 THEN NoTask ELSE tasks[t]]
            /\ models' = [models EXCEPT ![model_id] = NoModel]
            /\ sessions' = {s \in sessions : s.model_version_id # model_id}
            /\ resp' = DeleteResponse(model_id, "ok",
                   Cardinality({s \in sessions : s.model_version_id = model_id}),
                   Cardinality({t \in TaskIds : tasks[t].exists
                                  /\ tasks[t].result_model_id = model_id}),
                   StorageFiles(model_id) \ raising,
                   StorageFiles(model_id) \cap raising)

\* GET /latest: ModelService.get_latest_model, 404 when there is none
get_latest ==
    /\ resp' = Response("get_latest", get_latest_model,
                        IF get_latest_model = NoId THEN "not_found" ELSE "ok")
    /\ UNCHANGED <<models, sessions, tasks, farm_data, loop_closed, txn, nextModel, nextTask, deploys,
                   threadVars, sessionSaw, streamVars>>

\* GET /check-update: check_model_update; the answer carries the request
check_model_update(current_version, app_version) ==
    LET r == check_for_update(current_version)
        latest_version == IF r.latest_model = NoId THEN ""
                          ELSE models[r.latest_model].version
        compatible == /\ r.latest_model # NoId
                      /\ is_version_compatible(r.latest_model, app_version)
    IN  /\ resp' = [op |-> "check_update", id |-> r.latest_model, result |-> "ok",
                    current_version |-> current_version, app_version |-> app_version,
                    update_available |-> r.update_available /\ compatible,
                    latest_version |-> latest_version,
                    release_notes |->
                        IF r.latest_model = NoId \/ ~r.update_available THEN "none"
                        ELSE IF ~compatible THEN "requires_app_version"
                        ELSE "notes"]
        /\ UNCHANGED <<models, sessions, tasks, farm_data, loop_closed, txn, nextModel, nextTask, deploys,
                       threadVars, sessionSaw, streamVars>>

\* FarmDataService.create_reading: a reading with weight, length and verified=true
create_reading(s) ==
    /\ s = Cardinality(farm_data) + 1
    /\ farm_data' = farm_data \cup {s}
    /\ resp' = NoResp
    /\ UNCHANGED <<loop_closed, txn, models, sessions, tasks, nextModel, nextTask, deploys, threadVars, sessionSaw, streamVars>>

\* ------------------------------------------------------------ orchestrator
\* asyncio.run_coroutine_threadsafe(training_events.notify_training_...(task_id),
\* event_loop) inside try/except: the coroutine is queued on the event loop,
\* behind the earlier ones; on a closed loop the call raises and the exception
\* is logged.  `percentage` is the ledger write the notification follows.
run_coroutine_threadsafe(t, coro, percentage) ==
    IF loop_closed THEN loop_queue
    ELSE [loop_queue EXCEPT ![t] = Append(@, [coro |-> coro, percentage |-> percentage])]

\* train_model.update_progress: ledger write of stage, percentage and (when
\* given, 0 is None) epoch, committed
update_progress(t, stage, percentage, epoch) ==
    IF tasks[t].exists
    THEN [tasks EXCEPT ![t].current_stage = stage, ![t].progress_percentage = percentage,
                       ![t].current_epoch = IF epoch # 0 THEN epoch ELSE @]
    ELSE tasks

\* train_model.update_progress, lines 609-620: the update is notified when the
\* task row was found
notify_progress(t, percentage) ==
    IF tasks[t].exists THEN run_coroutine_threadsafe(t, "updated", percentage)
    ELSE loop_queue

\* The answer of POST /retrain, with the request it answers
RetrainResponse(base_model_id, new_version, id, result) ==
    [op |-> "retrain", id |-> id, result |-> result,
     base_model_id |-> base_model_id, new_version |-> new_version]

\* POST /retrain: retrain_model creates the PENDING task and starts the thread.
\* A body without base_model_id is refused by the RetrainRequest schema (422);
\* on the empty string the handler raises HTTPException(400) inside its own
\* try block, where `except Exception` turns it into HTTPException(500).
retrain_model(base_model_id, new_version, request_epochs) ==
    /\ UNCHANGED <<registryVars, farm_data, loop_closed, txn, unused_data_ids, df, new_model, sess, raised,
                   seen, sessionSaw, streamVars>>
    /\ IF base_model_id = Missing
       THEN /\ resp' = RetrainResponse(base_model_id, new_version, NoId, "unprocessable")
            /\ UNCHANGED <<tasks, nextTask, pc, epochs>>
       ELSE IF base_model_id = NoId
       THEN /\ resp' = RetrainResponse(base_model_id, new_version, NoId, "internal_error")
            /\ UNCHANGED <<tasks, nextTask, pc, epochs>>
       ELSE /\ nextTask <= MaxTasks
            /\ tasks' = [tasks EXCEPT ![nextTask] =
                 [NoTask EXCEPT !.exists = TRUE, !.base_model_id = base_model_id,
                                !.new_version = new_version, !.status = "pending"]]
            /\ pc' = [pc EXCEPT ![nextTask] = "start"]
            /\ epochs' = [epochs EXCEPT ![nextTask] = request_epochs]
            /\ nextTask' = nextTask + 1
            /\ resp' = RetrainResponse(base_model_id, new_version, nextTask, "accepted")

\* _run_training_task_in_thread, lines 67-86: the task becomes RUNNING and the
\* start is notified
thread_start(t) ==
    /\ pc[t] = "start"
    /\ tasks' = IF tasks[t].exists
                THEN [tasks EXCEPT ![t].status = "running",
                                   ![t].current_stage = "Initializing training"]
                ELSE tasks
    /\ loop_queue' = run_coroutine_threadsafe(t, "started", 0)
    /\ pc' = [pc EXCEPT ![t] = "validate"]
    /\ resp' = NoResp
    /\ UNCHANGED <<registryVars, farm_data, loop_closed, txn, nextTask, unused_data_ids, df, epochs, new_model, sess,
                   raised, seen, sessionSaw, age, busVars, consumerVars>>

\* train_model, lines 622-635: base model and target version are validated
validate(t) ==
    /\ pc[t] = "validate"
    /\ tasks' = update_progress(t, "Validating base model", 5, 0)
    /\ loop_queue' = notify_progress(t, 5)
    /\ LET base == tasks[t].base_model_id
           ok == /\ get_model_by_id(base) # NoId
                 /\ models[base].status = "completed"
                 /\ get_model_by_version(tasks[t].new_version) = {}
       IN  /\ pc' = [pc EXCEPT ![t] = IF ok THEN "fetch" ELSE "except"]
           /\ raised' = [raised EXCEPT ![t] = ~ok]
    /\ resp' = NoResp
    /\ UNCHANGED <<registryVars, farm_data, loop_closed, txn, nextTask, unused_data_ids, df, epochs, new_model, sess,
                   seen, sessionSaw, age, busVars, consumerVars>>

\* train_model, lines 637-641: the unused pool is read and checked against the floor
fetch(t) ==
    /\ pc[t] = "fetch"
    /\ tasks' = update_progress(t, "Fetching training data", 10, 0)
    /\ loop_queue' = notify_progress(t, 10)
    /\ unused_data_ids' = [unused_data_ids EXCEPT ![t] = get_unused_farm_data]
    /\ seen' = [seen EXCEPT ![t] = {s.model_version_id : s \in sessions}]
    /\ LET ok == Cardinality(get_unused_farm_data) >= MIN_SAMPLES
       IN  /\ pc' = [pc EXCEPT ![t] = IF ok THEN "process" ELSE "except"]
           /\ raised' = [raised EXCEPT ![t] = ~ok]
    /\ resp' = NoResp
    /\ UNCHANGED <<df, epochs, registryVars, farm_data, loop_closed, txn, nextTask, new_model, sess, sessionSaw,
                   age, busVars, consumerVars>>

\* train_model, lines 643-714: feature engineering, cleaning, split, scaling
\* and model preparation up to "Training model"; model.fit may raise
process(t) ==
    /\ pc[t] = "process"
    /\ tasks' = update_progress(t, "Training model", 30, 0)
    /\ loop_queue' = notify_progress(t, 30)
    /\ \E ok \in BOOLEAN :
         /\ pc' = [pc EXCEPT ![t] = IF ok THEN "train" ELSE "except"]
         /\ raised' = [raised EXCEPT ![t] = ~ok]
    /\ resp' = NoResp
    /\ UNCHANGED <<registryVars, farm_data, loop_closed, txn, nextTask, unused_data_ids, df, epochs, new_model, sess,
                   seen, sessionSaw, age, busVars, consumerVars>>

\* ProgressCallback.on_epoch_end, lines 471-474, for a request of MaxEpochs
\* epochs: progress = 30 + (epoch + 1) / epochs * 50
on_epoch_end(t) ==
    /\ pc[t] = "train"
    /\ tasks[t].current_epoch < epochs[t]
    /\ tasks' = update_progress(t, "Training epoch",
                                30 + ((tasks[t].current_epoch + 1) * 50) \div epochs[t],
                                tasks[t].current_epoch + 1)
    /\ loop_queue' = notify_progress(t,
                         30 + ((tasks[t].current_epoch + 1) * 50) \div epochs[t])
    /\ resp' = NoResp
    /\ UNCHANGED <<registryVars, farm_data, loop_closed, txn, nextTask, threadVars, sessionSaw,
                   age, busVars, consumerVars>>

\* train_model, lines 726-776: model.fit has returned (after the last epoch, or
\* earlier on early stopping); evaluation, conversion and upload
evaluate_and_upload(t) ==
    /\ pc[t] = "train"
    /\ tasks[t].current_epoch >= 1
    /\ tasks' = update_progress(t, "Uploading models to cloud storage", 90, 0)
    /\ loop_queue' = notify_progress(t, 90)
    /\ pc' = [pc EXCEPT ![t] = "persist"]
    /\ resp' = NoResp
    /\ UNCHANGED <<registryVars, farm_data, loop_closed, txn, nextTask, unused_data_ids, df, epochs, new_model, sess,
                   raised, seen, sessionSaw, age, busVars, consumerVars>>

\* ------------------------------------------------- the pipeline, by stage
\* The stages that process and evaluate_and_upload take in one step, one
\* action per call of update_progress.  A stage writes its checkpoint and then
\* does its work on the locals of train_model.
checkpoint(t, stage, percentage) ==
    /\ tasks' = update_progress(t, stage, percentage, 0)
    /\ loop_queue' = notify_progress(t, percentage)
    /\ resp' = NoResp
    /\ UNCHANGED <<registryVars, farm_data, loop_closed, txn, nextTask, unused_data_ids, epochs,
                   new_model, sess, seen, sessionSaw, age, busVars, consumerVars>>

\* train_model, lines 643-655 with fetch_training_data (lines 104-198): the
\* rows of the fetched ids are loaded, rows whose target is read as missing
\* are dropped (a weight or length of 0 is read as None), and the row count is
\* checked against the floor before preprocessing
fetch_training_data(t) ==
    /\ pc[t] = "process"
    /\ checkpoint(t, "Processing features", 15)
    /\ \E rows \in SUBSET unused_data_ids[t] :
         LET ok == Cardinality(rows) >= MIN_SAMPLES
         IN  /\ df' = [df EXCEPT ![t] = rows]
             /\ pc' = [pc EXCEPT ![t] = IF ok THEN "clean" ELSE "except"]
             /\ raised' = [raised EXCEPT ![t] = ~ok]

\* train_model, lines 667-669 with preprocess_training_data (lines 271-298):
\* outliers and duplicates are removed; the result is not checked against the
\* floor ("Don't check minimum here"), a low count is only logged
preprocess_training_data(t) ==
    /\ pc[t] = "clean"
    /\ checkpoint(t, "Cleaning and preprocessing data", 17)
    /\ \E rows \in SUBSET df[t] : df' = [df EXCEPT ![t] = rows]
    /\ pc' = [pc EXCEPT ![t] = "split"]
    /\ UNCHANGED raised

\* train_model, lines 674-683: train_test_split, which raises on an empty
\* array
train_test_split(t) ==
    /\ pc[t] = "split"
    /\ checkpoint(t, "Splitting and scaling data", 20)
    /\ pc' = [pc EXCEPT ![t] = IF df[t] # {} THEN "scale" ELSE "except"]
    /\ raised' = [raised EXCEPT ![t] = df[t] = {}]
    /\ UNCHANGED df

\* train_model, lines 685-690: RobustScaler is fitted on the training part
scale_features(t) ==
    /\ pc[t] = "scale"
    /\ checkpoint(t, "Scaling features", 22)
    /\ pc' = [pc EXCEPT ![t] = "prepare"]
    /\ UNCHANGED <<df, raised>>

\* train_model, lines 700-706: _prepare_model loads the base model or builds
\* a new one; loading may raise
prepare_model(t) ==
    /\ pc[t] = "prepare"
    /\ checkpoint(t, "Preparing model", 25)
    /\ \E ok \in BOOLEAN :
         /\ pc' = [pc EXCEPT ![t] = IF ok THEN "fit" ELSE "except"]
         /\ raised' = [raised EXCEPT ![t] = ~ok]
    /\ UNCHANGED df

\* Mutation of train_with_callbacks: the stage restarts the percentage
train_with_callbacks_restarting(t) ==
    /\ pc[t] = "fit"
    /\ checkpoint(t, "Training model", 0)
    /\ \E ok \in BOOLEAN :
         /\ pc' = [pc EXCEPT ![t] = IF ok THEN "train" ELSE "except"]
         /\ raised' = [raised EXCEPT ![t] = ~ok]
    /\ UNCHANGED df

\* train_model, lines 715-725: _train_with_callbacks calls model.fit, which
\* may raise; on_epoch_end reports each epoch
train_with_callbacks(t) ==
    /\ pc[t] = "fit"
    /\ checkpoint(t, "Training model", 30)
    /\ \E ok \in BOOLEAN :
         /\ pc' = [pc EXCEPT ![t] = IF ok THEN "train" ELSE "except"]
         /\ raised' = [raised EXCEPT ![t] = ~ok]
    /\ UNCHANGED df

\* train_model, lines 727-735: model.fit has returned (after the last epoch,
\* or earlier on early stopping) and the model is evaluated
evaluate_model(t) ==
    /\ pc[t] = "train"
    /\ tasks[t].current_epoch >= 1
    /\ checkpoint(t, "Evaluating model", 82)
    /\ pc' = [pc EXCEPT ![t] = "convert"]
    /\ UNCHANGED <<df, raised>>

\* train_model, lines 741-761: the model is saved and converted to TFLite
convert_to_tflite(t) ==
    /\ pc[t] = "convert"
    /\ checkpoint(t, "Converting and saving models", 85)
    /\ \E ok \in BOOLEAN :
         /\ pc' = [pc EXCEPT ![t] = IF ok THEN "upload" ELSE "except"]
         /\ raised' = [raised EXCEPT ![t] = ~ok]
    /\ UNCHANGED df

\* train_model, lines 763-776: the three files are uploaded; an upload may
\* raise
upload_model(t) ==
    /\ pc[t] = "upload"
    /\ checkpoint(t, "Uploading models to cloud storage", 90)
    /\ \E ok \in BOOLEAN :
         /\ pc' = [pc EXCEPT ![t] = IF ok THEN "persist" ELSE "except"]
         /\ raised' = [raised EXCEPT ![t] = ~ok]
    /\ UNCHANGED df

\* Mutation of persist_flush: version has no unique index
persist_flush_no_unique_index(t) ==
    /\ pc[t] = "persist"
    /\ tasks' = update_progress(t, "Saving model metadata", 95, 0)
    /\ loop_queue' = notify_progress(t, 95)
    /\ nextModel <= MaxModels
    /\ new_model' = [new_model EXCEPT ![t] = nextModel]
    /\ nextModel' = nextModel + 1
    /\ sess' = [sess EXCEPT ![t] = "pending"]
    /\ pc' = [pc EXCEPT ![t] = "session"]
    /\ resp' = NoResp
    /\ UNCHANGED <<models, sessions, deploys, farm_data, loop_closed, txn, nextTask, unused_data_ids, df, epochs,
                   raised, seen, sessionSaw, age, busVars, consumerVars>>

\* train_model, lines 781-805: db.add(model_version); db.flush().  The INSERT
\* waits for a concurrent uncommitted INSERT of the same version, and fails on
\* the unique index of version, which leaves the session inactive.
persist_flush(t) ==
    /\ pc[t] = "persist"
    /\ ~\E o \in TaskIds : /\ o # t /\ sess[o] = "pending"
                           /\ tasks[o].new_version = tasks[t].new_version
    /\ tasks' = update_progress(t, "Saving model metadata", 95, 0)
    /\ loop_queue' = notify_progress(t, 95)
    /\ IF get_model_by_version(tasks[t].new_version) # {}
       THEN /\ sess' = [sess EXCEPT ![t] = "inactive"]
            /\ pc' = [pc EXCEPT ![t] = "except"]
            /\ raised' = [raised EXCEPT ![t] = TRUE]
            /\ UNCHANGED <<new_model, nextModel>>
       ELSE /\ nextModel <= MaxModels
            /\ new_model' = [new_model EXCEPT ![t] = nextModel]
            /\ nextModel' = nextModel + 1
            /\ sess' = [sess EXCEPT ![t] = "pending"]
            /\ pc' = [pc EXCEPT ![t] = "session"]
            /\ UNCHANGED raised
    /\ resp' = NoResp
    /\ UNCHANGED <<models, sessions, deploys, farm_data, loop_closed, txn, nextTask, unused_data_ids, df, epochs,
                   seen, sessionSaw, age, busVars, consumerVars>>

\* The ModelVersion row train_model builds (lines 783-802)
ModelVersionRow(t) ==
    [exists |-> TRUE, version |-> tasks[t].new_version, status |-> "completed",
     is_deployed |-> FALSE, is_active |-> TRUE, created_at |-> new_model[t],
     deployed_at |-> 0, notes |-> 0, has_files |-> TRUE, min_app_version |-> <<>>]

\* Mutation of TrainingSessionRow: the session records the rows left after
\* cleaning
TrainingSessionRow_after_cleaning(t) ==
    [model_version_id |-> new_model[t], farm_data_ids |-> df[t]]

\* The TrainingSession row train_model builds (lines 808-829)
TrainingSessionRow(t) ==
    [model_version_id |-> new_model[t], farm_data_ids |-> unused_data_ids[t]]

\* train_model, lines 807-833: the TrainingSession is built and the pair is
\* committed; building the row may raise with the ModelVersion still flushed
persist_commit(t) ==
    /\ pc[t] = "session"
    /\ \/ /\ models' = [models EXCEPT ![new_model[t]] = ModelVersionRow(t)]
          /\ sessions' = sessions \cup {TrainingSessionRow(t)}
          /\ sessionSaw' = [sessionSaw EXCEPT ![new_model[t]] = seen[t]]
          /\ sess' = [sess EXCEPT ![t] = "clean"]
          /\ pc' = [pc EXCEPT ![t] = "finalize"]
          /\ UNCHANGED raised
       \/ /\ pc' = [pc EXCEPT ![t] = "except"]
          /\ raised' = [raised EXCEPT ![t] = TRUE]
          /\ UNCHANGED <<models, sessions, sessionSaw, sess>>
    /\ resp' = NoResp
    /\ UNCHANGED <<tasks, deploys, nextModel, farm_data, loop_closed, txn, nextTask, unused_data_ids, df, epochs,
                   new_model, seen, streamVars>>

\* _run_training_task_in_thread, lines 102-110: the task becomes COMPLETED
finalize(t) ==
    /\ pc[t] = "finalize"
    /\ tasks' = IF tasks[t].exists
                THEN [tasks EXCEPT ![t].status = "completed", ![t].completed_at = TRUE,
                                   ![t].result_model_id = new_model[t],
                                   ![t].progress_percentage = 100,
                                   ![t].current_stage = "Training completed"]
                ELSE tasks
    /\ age' = [age EXCEPT ![t] = 0]
    /\ pc' = [pc EXCEPT ![t] = "log"]
    /\ resp' = NoResp
    /\ UNCHANGED <<registryVars, farm_data, loop_closed, txn, nextTask, unused_data_ids, df, epochs, new_model, sess,
                   raised, seen, sessionSaw, loop_queue, busVars, consumerVars>>

\* _run_training_task_in_thread, lines 142-143: task_db.close() and the end of
\* the thread; its session and the locals of train_model are gone
ThreadEnds(t) ==
    /\ unused_data_ids' = [unused_data_ids EXCEPT ![t] = {}]
    /\ df' = [df EXCEPT ![t] = {}]
    /\ epochs' = [epochs EXCEPT ![t] = 0]
    /\ new_model' = [new_model EXCEPT ![t] = NoId]
    /\ seen' = [seen EXCEPT ![t] = {}]
    /\ sess' = [sess EXCEPT ![t] = "closed"]

\* Mutation of log_trained: the hand-off of the completion is not guarded, so
\* its failure reaches the except handler of the thread
log_trained_unguarded(t) ==
    /\ pc[t] = "log"
    /\ pc' = [pc EXCEPT ![t] = IF models[new_model[t]].exists /\ ~loop_closed
                               THEN "done" ELSE "except"]
    /\ IF models[new_model[t]].exists /\ ~loop_closed
       THEN /\ ThreadEnds(t)
            /\ loop_queue' = run_coroutine_threadsafe(t, "completed", tasks[t].progress_percentage)
       ELSE UNCHANGED <<unused_data_ids, df, epochs, new_model, sess, seen, loop_queue>>
    /\ resp' = NoResp
    /\ UNCHANGED <<registryVars, tasks, farm_data, loop_closed, txn, nextTask, raised,
                   sessionSaw, age, busVars, consumerVars>>

\* _run_training_task_in_thread, lines 112-122: new_model.version is read
\* after the commit expired the instance, and the reload raises when the row is
\* gone; otherwise the completion is notified
log_trained(t) ==
    /\ pc[t] = "log"
    /\ pc' = [pc EXCEPT ![t] = IF models[new_model[t]].exists THEN "done" ELSE "except"]
    /\ IF models[new_model[t]].exists
       THEN /\ ThreadEnds(t)
            /\ loop_queue' = run_coroutine_threadsafe(t, "completed", tasks[t].progress_percentage)
       ELSE UNCHANGED <<unused_data_ids, df, epochs, new_model, sess, seen, loop_queue>>
    /\ resp' = NoResp
    /\ UNCHANGED <<registryVars, tasks, farm_data, loop_closed, txn, nextTask, raised, sessionSaw,
                   age, busVars, consumerVars>>

\* _run_training_task_in_thread, lines 124-141: the except handler.  On an
\* inactive session the query raises and the thread ends without a
\* notification; otherwise the task is set FAILED, task_db.commit() commits
\* whatever the session holds, and the completion is notified.
handle_exception(t) ==
    /\ pc[t] = "except"
    /\ pc' = [pc EXCEPT ![t] = "done"]
    /\ resp' = NoResp
    /\ IF sess[t] = "inactive"
       THEN UNCHANGED <<tasks, models, age, loop_queue>>
       ELSE /\ loop_queue' = run_coroutine_threadsafe(t, "completed", tasks[t].progress_percentage)
            /\ IF ~tasks[t].exists
               THEN UNCHANGED <<tasks, models, age>>
               ELSE /\ tasks' = [tasks EXCEPT ![t].status = "failed",
                                              ![t].completed_at = TRUE,
                                              ![t].error_message = "error"]
                    /\ age' = [age EXCEPT ![t] = 0]
                    /\ models' = IF sess[t] = "pending"
                                 THEN [models EXCEPT ![new_model[t]] = ModelVersionRow(t)]
                                 ELSE models
    /\ ThreadEnds(t)
    /\ UNCHANGED <<sessions, deploys, nextModel, farm_data, loop_closed, txn, nextTask, raised, sessionSaw,
                   busVars, consumerVars>>

ThreadStep(t) ==
    \/ thread_start(t)
    \/ validate(t)
    \/ fetch(t)
    \/ process(t)
    \/ on_epoch_end(t)
    \/ evaluate_and_upload(t)
    \/ persist_flush(t)
    \/ persist_commit(t)
    \/ finalize(t)
    \/ log_trained(t)
    \/ handle_exception(t)

\* The thread of one run with the pipeline taken stage by stage
PipelineStep(t) ==
    \/ thread_start(t)
    \/ validate(t)
    \/ fetch(t)
    \/ fetch_training_data(t)
    \/ preprocess_training_data(t)
    \/ train_test_split(t)
    \/ scale_features(t)
    \/ prepare_model(t)
    \/ train_with_callbacks(t)
    \/ on_epoch_end(t)
    \/ evaluate_model(t)
    \/ convert_to_tflite(t)
    \/ upload_model(t)
    \/ persist_flush(t)
    \/ persist_commit(t)
    \/ finalize(t)
    \/ log_trained(t)
    \/ handle_exception(t)

\* ------------------------------------------------------------- event bus
\* asyncio.Event.set(): the flag is set and the future of every waiter is
\* resolved; owed records that the consumer has not been woken since
EventSet ==
    /\ event' = TRUE
    /\ cpc' = [c \in Consumers |-> IF cpc[c] = "waiting" THEN "woken" ELSE cpc[c]]
    /\ owed' = [c \in Consumers |-> cpc[c] # "off"]

\* TrainingEventBus.notify_training_started
notify_training_started(task_id) ==
    /\ active_tasks' = active_tasks \cup {task_id}
    /\ EventSet

\* Mutation of notify_training_updated: the active set is not consulted
notify_training_updated_always(task_id) ==
    /\ UNCHANGED active_tasks
    /\ EventSet

\* TrainingEventBus.notify_training_updated
notify_training_updated(task_id) ==
    /\ UNCHANGED active_tasks
    /\ IF task_id \in active_tasks
       THEN EventSet
       ELSE UNCHANGED <<event, cpc, owed>>

\* TrainingEventBus.notify_training_completed
notify_training_completed(task_id) ==
    /\ active_tasks' = active_tasks \ {task_id}
    /\ EventSet

\* The coroutine of the bus by name
Coroutine(coro, task_id) ==
    CASE coro = "started" -> notify_training_started(task_id)
      [] coro = "updated" -> notify_training_updated(task_id)
      [] coro = "completed" -> notify_training_completed(task_id)

\* The event loop runs the oldest coroutine a training thread scheduled
loop_run(t) ==
    /\ ~loop_closed
    /\ loop_queue[t] # <<>>
    /\ Coroutine(Head(loop_queue[t]).coro, t)
    /\ loop_queue' = [loop_queue EXCEPT ![t] = Tail(@)]
    /\ resp' = [op |-> Head(loop_queue[t]).coro, id |-> t, result |-> "run",
                percentage |-> Head(loop_queue[t]).percentage]
    /\ UNCHANGED <<registryVars, tasks, farm_data, loop_closed, txn, nextTask, threadVars, sessionSaw,
                   age, last_states, out, waited, last_emitted>>

\* The event loop stops taking work (the server shuts down while a daemon
\* training thread is still running): run_coroutine_threadsafe raises from now on
loop_close ==
    /\ ~loop_closed
    /\ loop_closed' = TRUE
    /\ resp' = NoResp
    /\ UNCHANGED <<registryVars, tasks, farm_data, nextTask, threadVars, sessionSaw,
                   streamVars, txn>>

\* A method of the bus awaited directly by a caller on the event loop
notify_call(coro, task_id) ==
    /\ Coroutine(coro, task_id)
    /\ resp' = Response(coro, task_id, "run")
    /\ UNCHANGED <<registryVars, tasks, farm_data, loop_closed, txn, nextTask, threadVars, sessionSaw,
                   loop_queue, age, last_states, out, waited, last_emitted>>

\* ---------------------------------------------------------- progress stream
\* event_generator, lines 722-727: the tuple compared with last_states
TaskState(t) ==
    [status |-> tasks[t].status, progress_percentage |-> tasks[t].progress_percentage,
     current_epoch |-> tasks[t].current_epoch, current_stage |-> tasks[t].current_stage]

\* Mutation of all_tasks: the tasks finished in the trailing window are not read
all_tasks_active_only ==
    {t \in TaskIds : tasks[t].exists /\ tasks[t].status \in {"pending", "running"}}

\* event_generator, lines 707-719: PENDING and RUNNING tasks and the tasks
\* COMPLETED or FAILED within the last RECENT_MINUTES
all_tasks ==
    {t \in TaskIds :
        /\ tasks[t].exists
        /\ \/ tasks[t].status \in {"pending", "running"}
           \/ /\ tasks[t].status \in {"completed", "failed"}
              /\ tasks[t].completed_at
              /\ age[t] <= WINDOW}

\* Mutation of the cycle: every task read is emitted, changed or not
cycle_emits_all(c, event_occurred) ==
    /\ last_states' = [last_states EXCEPT ![c] =
          [t \in TaskIds |-> IF t \in all_tasks THEN TaskState(t) ELSE NoState]]
    /\ out' = [out EXCEPT ![c] =
          [data |-> {<<t, TaskState(t)>> : t \in all_tasks},
           heartbeat |-> ~event_occurred]]
    /\ last_emitted' = [last_emitted EXCEPT ![c] =
          [t \in TaskIds |-> IF t \in all_tasks THEN TaskState(t)
                             ELSE last_emitted[c][t]]]
    /\ waited' = [waited EXCEPT ![c] = 0]

\* Mutation of the cycle: last_states is updated before the comparison, so no
\* task is ever seen as changed
cycle_compares_after_update(c, event_occurred) ==
    /\ last_states' = [last_states EXCEPT ![c] =
          [t \in TaskIds |-> IF t \in all_tasks THEN TaskState(t) ELSE NoState]]
    /\ out' = [out EXCEPT ![c] = [data |-> {}, heartbeat |-> ~event_occurred]]
    /\ UNCHANGED last_emitted
    /\ waited' = [waited EXCEPT ![c] = 0]

\* event_generator, lines 702-751: one pass of the loop after wait_for_update
\* returned: the ledger is read, the tasks whose tuple changed are emitted,
\* last_states is updated and pruned, and a heartbeat follows a timeout
cycle(c, event_occurred) ==
    LET changed == {t \in all_tasks : last_states[c][t] # TaskState(t)}
    IN  /\ last_states' = [last_states EXCEPT ![c] =
              [t \in TaskIds |-> IF t \in all_tasks THEN TaskState(t) ELSE NoState]]
        /\ out' = [out EXCEPT ![c] =
              [data |-> {<<t, TaskState(t)>> : t \in changed},
               heartbeat |-> ~event_occurred]]
        /\ last_emitted' = [last_emitted EXCEPT ![c] =
              [t \in TaskIds |-> IF t \in changed THEN TaskState(t)
                                 ELSE last_emitted[c][t]]]
        /\ waited' = [waited EXCEPT ![c] = 0]

\* wait_for_update returns True: the waiter resumes, clears the event (line 52)
\* and runs the pass; with nothing to yield it is back in wait_for_update
resume(c) ==
    /\ cpc[c] = "woken"
    /\ event' = FALSE
    /\ owed' = [owed EXCEPT ![c] = FALSE]
    /\ cycle(c, TRUE)
    /\ cpc' = [cpc EXCEPT ![c] = IF out'[c].data = {} THEN "waiting" ELSE "yielding"]
    /\ resp' = NoResp
    /\ UNCHANGED <<registryVars, tasks, farm_data, loop_closed, txn, nextTask, threadVars, sessionSaw,
                   loop_queue, age, active_tasks>>

\* wait_for_update returns False after TIMEOUT (lines 54-55): the pass runs and
\* the heartbeat is yielded
timeout(c) ==
    /\ cpc[c] = "waiting"
    /\ waited[c] >= 1
    /\ cycle(c, FALSE)
    /\ owed' = [owed EXCEPT ![c] = FALSE]
    /\ cpc' = [cpc EXCEPT ![c] = "yielding"]
    /\ resp' = NoResp
    /\ UNCHANGED <<registryVars, tasks, farm_data, loop_closed, txn, nextTask, threadVars, sessionSaw,
                   loop_queue, age, busVars>>

\* The generator is resumed after its yields and calls wait_for_update (line
\* 700): with the event set the wait ends at once, else the consumer waits
wait_for_update(c) ==
    /\ cpc[c] = "yielding"
    /\ cpc' = [cpc EXCEPT ![c] = IF event THEN "woken" ELSE "waiting"]
    /\ out' = [out EXCEPT ![c] = NoOutput]
    /\ waited' = [waited EXCEPT ![c] = 0]
    /\ resp' = NoResp
    /\ UNCHANGED <<registryVars, tasks, farm_data, loop_closed, txn, nextTask, threadVars, sessionSaw,
                   loop_queue, age, busVars, last_states, owed, last_emitted>>

\* TIMEOUT seconds pass.  The steps of the event loop are short against it: no
\* coroutine is ready to run and no generator is being read, and a wait that
\* has lasted TIMEOUT has timed out.
tick ==
    /\ \A t \in TaskIds : loop_queue[t] = <<>>
    /\ \A c \in Consumers : cpc[c] \in {"off", "waiting"} /\ waited[c] = 0
    /\ \/ \E c \in Consumers : cpc[c] = "waiting"
       \/ \E t \in TaskIds : tasks[t].completed_at /\ age[t] <= WINDOW
    /\ age' = [t \in TaskIds |->
          IF tasks[t].completed_at /\ age[t] <= WINDOW THEN age[t] + 1 ELSE age[t]]
    /\ waited' = [c \in Consumers |-> IF cpc[c] = "waiting" THEN 1 ELSE 0]
    /\ resp' = NoResp
    /\ UNCHANGED <<registryVars, tasks, farm_data, loop_closed, txn, nextTask, threadVars, sessionSaw,
                   loop_queue, busVars, cpc, last_states, out, owed, last_emitted>>

\* Every operation, any number of concurrent training threads up to MaxTasks
Next ==
    \/ create_default_baseline_model
    \/ \E m \in ModelIds, n \in BOOLEAN : deploy_model(m, n)
    \/ \E m \in ModelIds : undeploy_model(m)
    \/ \E m \in ModelIds : archive_model(m)
    \/ \E m \in ModelIds : delete_model(m)
    \/ get_latest
    \/ \E cv \in Versions, av \in AppVersions : check_model_update(cv, av)
    \/ \E s \in Samples : create_reading(s)
    \/ \E b \in BaseInputs, v \in Versions : retrain_model(b, v, MaxEpochs)
    \/ \E t \in TaskIds : ThreadStep(t)
    \/ \E t \in TaskIds : loop_run(t)
    \/ \E c \in Consumers : resume(c) \/ timeout(c) \/ wait_for_update(c)
    \/ tick

Spec == Init /\ [][Next]_vars

\* The database after bootstrap and one completed retrain of version 1.0.0 on
\* the first MIN_SAMPLES readings, with all the readings synced
InitTrained ==
    /\ models = [m \in ModelIds |->
         IF m = 1 THEN [NoModel EXCEPT !.exists = TRUE, !.version = DEFAULT_VERSION,
                                       !.status = "completed", !.created_at = 1]
         ELSE IF m = 2 THEN [NoModel EXCEPT !.exists = TRUE, !.version = "1.0.0",
                                            !.status = "completed", !.is_active = TRUE,
                                            !.created_at = 2, !.has_files = TRUE]
         ELSE NoModel]
    /\ sessions = {[model_version_id |-> 2, farm_data_ids |-> 1..MIN_SAMPLES]}
    /\ tasks = [t \in TaskIds |->
         IF t = 1 THEN [NoTask EXCEPT !.exists = TRUE, !.base_model_id = 1,
                                      !.new_version = "1.0.0", !.status = "completed",
                                      !.progress_percentage = 100,
                                      !.current_stage = "Training completed",
                                      !.result_model_id = 2, !.completed_at = TRUE,
                                      !.current_epoch = 1]
         ELSE NoTask]
    /\ farm_data = Samples
    /\ nextModel = 3
    /\ nextTask = 2
    /\ deploys = 0
    /\ pc = [t \in TaskIds |-> IF t = 1 THEN "done" ELSE "idle"]
    /\ unused_data_ids = [t \in TaskIds |-> {}]
    /\ df = [t \in TaskIds |-> {}]
    /\ epochs = [t \in TaskIds |-> 0]
    /\ loop_closed = FALSE
    /\ txn = [r \in Requests |-> NoTxn]
    /\ new_model = [t \in TaskIds |-> NoId]
    /\ sess = [t \in TaskIds |-> IF t = 1 THEN "closed" ELSE "clean"]
    /\ raised = [t \in TaskIds |-> FALSE]
    /\ seen = [t \in TaskIds |-> {}]
    /\ sessionSaw = [m \in ModelIds |-> {}]
    /\ resp = NoResp
    /\ InitStreamVars

\* The registry under every registry operation and further retrains, from the
\* empty database without farm data or from the database after a first retrain
InitRegistry ==
    \/ InitTables /\ InitStreamVars /\ farm_data = {}
    \/ InitTrained

NextRegistry ==
    \/ create_default_baseline_model
    \/ \E m \in ModelIds, n \in BOOLEAN : deploy_model(m, n)
    \/ \E m \in ModelIds : undeploy_model(m)
    \/ \E m \in ModelIds : archive_model(m)
    \/ \E m \in ModelIds : delete_model(m)
    \/ get_latest
    \/ \E b \in BaseInputs, v \in Versions : retrain_model(b, v, MaxEpochs)
    \/ \E t \in TaskIds : ThreadStep(t)

SpecRegistry == InitRegistry /\ [][NextRegistry]_vars

\* Concurrent training threads, with farm data arriving and models deleted
NextTraining ==
    \/ create_default_baseline_model
    \/ \E m \in ModelIds : delete_model(m)
    \/ \E s \in Samples : create_reading(s)
    \/ \E b \in BaseInputs, v \in Versions : retrain_model(b, v, MaxEpochs)
    \/ \E t \in TaskIds : ThreadStep(t)

SpecTraining == Init /\ [][NextTraining]_vars

\* The registry after two retrains (1.0.0 and 2.0.0), with the min_app_version
\* of the trained models as the operator set it in the database
InitUpdate ==
    /\ \E m2, m3 \in MinAppVersions :
         models = [m \in ModelIds |->
            IF m = 1 THEN [NoModel EXCEPT !.exists = TRUE, !.version = DEFAULT_VERSION,
                                          !.status = "completed", !.created_at = 1]
            ELSE IF m = 2 THEN [NoModel EXCEPT !.exists = TRUE, !.version = "1.0.0",
                                               !.status = "completed", !.is_active = TRUE,
                                               !.created_at = 2, !.has_files = TRUE,
                                               !.min_app_version = m2]
            ELSE IF m = 3 THEN [NoModel EXCEPT !.exists = TRUE, !.version = "2.0.0",
                                               !.status = "completed", !.is_active = TRUE,
                                               !.created_at = 3, !.has_files = TRUE,
                                               !.min_app_version = m3]
            ELSE NoModel]
    /\ sessions = {[model_version_id |-> 2, farm_data_ids |-> 1..MIN_SAMPLES],
                   [model_version_id |-> 3,
                    farm_data_ids |-> (MIN_SAMPLES + 1)..(2 * MIN_SAMPLES)]}
    /\ tasks = [t \in TaskIds |->
         IF t \in {1, 2}
         THEN [NoTask EXCEPT !.exists = TRUE, !.base_model_id = 1,
                             !.new_version = IF t = 1 THEN "1.0.0" ELSE "2.0.0",
                             !.status = "completed", !.progress_percentage = 100,
                             !.current_stage = "Training completed",
                             !.result_model_id = t + 1, !.completed_at = TRUE,
                             !.current_epoch = 1]
         ELSE NoTask]
    /\ farm_data = 1..(2 * MIN_SAMPLES)
    /\ nextModel = 4
    /\ nextTask = 3
    /\ deploys = 0
    /\ pc = [t \in TaskIds |-> IF t \in {1, 2} THEN "done" ELSE "idle"]
    /\ unused_data_ids = [t \in TaskIds |-> {}]
    /\ df = [t \in TaskIds |-> {}]
    /\ epochs = [t \in TaskIds |-> 0]
    /\ loop_closed = FALSE
    /\ txn = [r \in Requests |-> NoTxn]
    /\ new_model = [t \in TaskIds |-> NoId]
    /\ sess = [t \in TaskIds |-> IF t \in {1, 2} THEN "closed" ELSE "clean"]
    /\ raised = [t \in TaskIds |-> FALSE]
    /\ seen = [t \in TaskIds |-> {}]
    /\ sessionSaw = [m \in ModelIds |-> IF m = 3 THEN {2} ELSE {}]
    /\ resp = NoResp
    /\ InitStreamVars

\* The update check of the mobile clients against a registry under deployment
NextUpdate ==
    \/ \E m \in ModelIds, n \in BOOLEAN : deploy_model(m, n)
    \/ \E m \in ModelIds : undeploy_model(m)
    \/ \E m \in ModelIds : archive_model(m)
    \/ \E m \in ModelIds : delete_model(m)
    \/ get_latest
    \/ \E cv \in Versions, av \in AppVersions : check_model_update(cv, av)

SpecUpdate == InitUpdate /\ [][NextUpdate]_vars

\* The database after bootstrap with the readings synced, and the stream
\* consumers of `connected` connected: each generator has yielded its first ping
InitWatched(connected) ==
    /\ models = [m \in ModelIds |->
         IF m = 1 THEN [NoModel EXCEPT !.exists = TRUE, !.version = DEFAULT_VERSION,
                                       !.status = "completed", !.created_at = 1]
         ELSE NoModel]
    /\ sessions = {}
    /\ tasks = [t \in TaskIds |-> NoTask]
    /\ farm_data = Samples
    /\ nextModel = 2
    /\ nextTask = 1
    /\ deploys = 0
    /\ pc = [t \in TaskIds |-> "idle"]
    /\ unused_data_ids = [t \in TaskIds |-> {}]
    /\ df = [t \in TaskIds |-> {}]
    /\ epochs = [t \in TaskIds |-> 0]
    /\ loop_closed = FALSE
    /\ txn = [r \in Requests |-> NoTxn]
    /\ new_model = [t \in TaskIds |-> NoId]
    /\ sess = [t \in TaskIds |-> "clean"]
    /\ raised = [t \in TaskIds |-> FALSE]
    /\ seen = [t \in TaskIds |-> {}]
    /\ sessionSaw = [m \in ModelIds |-> {}]
    /\ resp = NoResp
    /\ loop_queue = [t \in TaskIds |-> <<>>]
    /\ age = [t \in TaskIds |-> 0]
    /\ event = FALSE
    /\ active_tasks = {}
    /\ cpc = [c \in Consumers |-> IF c \in connected THEN "yielding" ELSE "off"]
    /\ last_states = [c \in Consumers |-> [t \in TaskIds |-> NoState]]
    /\ out = [c \in Consumers |-> NoOutput]
    /\ waited = [c \in Consumers |-> 0]
    /\ owed = [c \in Consumers |-> FALSE]
    /\ last_emitted = [c \in Consumers |-> [t \in TaskIds |-> NoState]]

\* One stream consumer watches a retrain from the request to the end of the
\* trailing window, while the new model may be deleted
InitStream == InitWatched({1})

NextStream ==
    \/ nextTask = 1 /\ retrain_model(1, "1.0.0", MaxEpochs)
    \/ \E m \in ModelIds : delete_model(m)
    \/ \E t \in TaskIds : ThreadStep(t)
    \/ \E t \in TaskIds : loop_run(t)
    \/ \E c \in Consumers : resume(c) \/ timeout(c) \/ wait_for_update(c)
    \/ tick

SpecStream == InitStream /\ [][NextStream]_vars

\* The event loop runs what is ready, the client keeps reading the stream and
\* time passes
FairStream ==
    /\ \A c \in Consumers : WF_vars(resume(c) \/ timeout(c) \/ wait_for_update(c))
    /\ WF_vars(\E t \in TaskIds : loop_run(t))
    /\ WF_vars(tick)

LiveSpecStream == SpecStream /\ FairStream

\* Every stream consumer watches a retrain
InitBroadcast == InitWatched(Consumers)

NextBroadcast ==
    \/ \E v \in Versions : nextTask = 1 /\ retrain_model(1, v, MaxEpochs)
    \/ \E t \in TaskIds : ThreadStep(t)
    \/ \E t \in TaskIds : loop_run(t)
    \/ \E c \in Consumers : resume(c) \/ timeout(c) \/ wait_for_update(c)
    \/ tick

SpecBroadcast == InitBroadcast /\ [][NextBroadcast]_vars

\* The event bus alone: its methods are called in any order for any task id
\* while every stream consumer waits on it
InitBus == InitWatched(Consumers)

NextBus ==
    \/ \E coro \in {"started", "updated", "completed"}, t \in TaskIds :
          notify_call(coro, t)
    \/ \E c \in Consumers : resume(c) \/ timeout(c) \/ wait_for_update(c)
    \/ tick

SpecBus == InitBus /\ [][NextBus]_vars

\* Training threads and the event loop that runs their notifications
InitNotify == InitWatched({})

NextNotify ==
    \/ \E v \in Versions : retrain_model(1, v, MaxEpochs)
    \/ \E t \in TaskIds : ThreadStep(t)
    \/ \E t \in TaskIds : loop_run(t)

SpecNotify == InitNotify /\ [][NextNotify]_vars

\* The same while the event loop may stop taking work at any moment
NextHandoff ==
    \/ NextNotify
    \/ loop_close

SpecHandoff == InitNotify /\ [][NextHandoff]_vars

\* One training run with the pipeline taken stage by stage, for every epoch
\* budget, while the trained model may be deleted
NextPipeline ==
    \/ \E v \in Versions, e \in Budgets : nextTask = 1 /\ retrain_model(1, v, e)
    \/ \E t \in TaskIds : PipelineStep(t)
    \/ \E m \in ModelIds : delete_model(m)

SpecPipeline == InitNotify /\ [][NextPipeline]_vars

\* Deploy calls that run concurrently, each in its own database session,
\* while readers ask for the latest model; from the registry after two retrains
NextDeploy ==
    \/ \E r \in Requests, m \in ModelIds, n \in BOOLEAN : deploy_model_query(r, m, n)
    \/ \E r \in Requests : deploy_model_commit(r)
    \/ get_latest

SpecDeploy == InitUpdate /\ [][NextDeploy]_vars

\* ================================================================ claims
Deployed == {m \in ExistingModels : models[m].is_deployed}
Active == {m \in ExistingModels : models[m].is_active}
SessionOf(m) == {s \in sessions : s.model_version_id = m}

InitTrainedReached ==
    /\ models[1].version = DEFAULT_VERSION /\ models[1].status = "completed"
    /\ models[2].exists /\ models[2].version = "1.0.0" /\ models[2].status = "completed"
    /\ models[2].is_active /\ ~models[2].is_deployed /\ ~models[3].exists
    /\ sessions = {[model_version_id |-> 2, farm_data_ids |-> 1..MIN_SAMPLES]}
    /\ tasks[1].status = "completed" /\ tasks[1].result_model_id = 2
    /\ ~tasks[2].exists /\ pc[1] = "done" /\ pc[2] = "idle"
    /\ farm_data = Samples /\ nextModel = 3 /\ nextTask = 2

C2_SampleUsedOnce ==
    \A s1, s2 \in sessions :
        s1 # s2 => s1.farm_data_ids \cap s2.farm_data_ids = {}

\* C2 amended: a TrainingSession shares no sample id with a session that was
\* already committed when its run fetched the unused pool; only runs whose fetch
\* preceded the other's commit can record the same sample.
C2_UsedOnceAfterCommit ==
    \A s1, s2 \in sessions :
        (s1 # s2 /\ s1.model_version_id \in sessionSaw[s2.model_version_id])
        => s1.farm_data_ids \cap s2.farm_data_ids = {}

\* C2 witness: two sessions, the second fetched after the first was committed
C2_Witness ==
    \E s1, s2 \in sessions :
        /\ s1 # s2
        /\ s1.model_version_id \in sessionSaw[s2.model_version_id]
        /\ s1.farm_data_ids # {} /\ s2.farm_data_ids # {}

\* C3 as claimed: a task is created PENDING, becomes RUNNING, then COMPLETED
\* with result_model_id or FAILED with error_message; a COMPLETED or FAILED task
\* never changes again, and a row is removed only with its result model.
C3_TaskLifecycle ==
    [][\A t \in TaskIds :
         /\ (~tasks[t].exists /\ tasks'[t].exists) => tasks'[t].status = "pending"
         /\ (tasks[t].exists /\ tasks'[t].exists /\ tasks'[t].status # tasks[t].status)
            => \/ tasks[t].status = "pending" /\ tasks'[t].status = "running"
               \/ /\ tasks[t].status = "running" /\ tasks'[t].status = "completed"
                  /\ tasks'[t].result_model_id # NoId
               \/ /\ tasks[t].status = "running" /\ tasks'[t].status = "failed"
                  /\ tasks'[t].error_message # "NULL"
         /\ (tasks[t].exists /\ tasks[t].status \in {"completed", "failed"} /\ tasks'[t].exists)
            => /\ tasks'[t].status = tasks[t].status
               /\ tasks'[t].progress_percentage = tasks[t].progress_percentage
               /\ tasks'[t].result_model_id = tasks[t].result_model_id
               /\ tasks'[t].error_message = tasks[t].error_message
         /\ (tasks[t].exists /\ ~tasks'[t].exists)
            => /\ tasks[t].result_model_id # NoId
               /\ ~models'[tasks[t].result_model_id].exists
    ]_vars

\* C4 as claimed: when the pipeline of a task raised and its thread has ended,
\* the task is FAILED with error_message and completed_at set and no result.
C4_FailureRecorded ==
    \A t \in TaskIds :
        (pc[t] = "done" /\ raised[t] /\ tasks[t].exists)
        => /\ tasks[t].status = "failed"
           /\ tasks[t].error_message # "NULL"
           /\ tasks[t].completed_at
           /\ tasks[t].result_model_id = NoId

\* C5 as claimed: a trained ModelVersion row and its TrainingSession row are
\* persisted together or not at all.
C5_NoPartialCommit ==
    /\ \A m \in ExistingModels :
          models[m].version # DEFAULT_VERSION => SessionOf(m) # {}
    /\ \A s \in sessions : models[s.model_version_id].exists

\* C6 as claimed: deploy of a model that is already deployed succeeds and
\* changes nothing.
C6_DeployIdempotent ==
    [][\A m \in ModelIds :
         (models[m].exists /\ models[m].is_deployed
          /\ resp'.op = "deploy" /\ resp'.id = m)
         => (resp'.result = "ok" /\ models' = models)
    ]_vars

\* C7: deploy of an unknown id fails not-found, deploy of a model whose status
\* is not COMPLETED fails invalid-state, both without changing any model row;
\* a status becomes DEPLOYED only in a step that found it COMPLETED.
C7_DeployGuards ==
    [][\A m \in ModelIds :
         /\ (resp'.op = "deploy" /\ resp'.id = m /\ ~models[m].exists)
            => (resp'.result = "not_found" /\ models' = models)
         /\ (resp'.op = "deploy" /\ resp'.id = m /\ models[m].exists
             /\ models[m].status # "completed")
            => (resp'.result = "invalid_state" /\ models' = models)
         /\ (models'[m].status = "deployed" /\ models[m].status # "deployed")
            => (models[m].exists /\ models[m].status = "completed")
    ]_vars

\* C7 witness: a deploy of an ARCHIVED model was just refused
C7_Witness ==
    /\ resp.op = "deploy" /\ resp.result = "invalid_state"
    /\ models[resp.id].exists /\ models[resp.id].status = "archived"

\* C8: archive of a deployed model fails invalid-state and changes nothing;
\* undeploy of it clears the flag, and archive of a model that is not deployed
\* succeeds with status ARCHIVED and is_active FALSE.
C8_ArchiveAfterUndeploy ==
    [][\A m \in ModelIds :
         /\ (resp'.op = "archive" /\ resp'.id = m /\ models[m].exists /\ models[m].is_deployed)
            => (resp'.result = "invalid_state" /\ models' = models)
         /\ (resp'.op = "undeploy" /\ resp'.id = m /\ models[m].exists /\ models[m].is_deployed)
            => (resp'.result = "ok" /\ ~models'[m].is_deployed)
         /\ (resp'.op = "archive" /\ resp'.id = m /\ models[m].exists /\ ~models[m].is_deployed)
            => /\ resp'.result = "ok"
               /\ models'[m].status = "archived"
               /\ ~models'[m].is_active
    ]_vars

\* C8 witness: a model that had been deployed was just archived
C8_Witness ==
    \E m \in ModelIds :
        /\ resp = Response("archive", m, "ok")
        /\ models[m].status = "archived" /\ ~models[m].is_active
        /\ models[m].deployed_at > 0

C10_LatestPrefersDeployed ==
    resp.op = "get_latest" =>
        /\ Deployed # {} => (resp.id \in Deployed /\ resp.result = "ok")
        /\ (Deployed = {} /\ Active # {})
           => /\ resp.id \in Active /\ resp.result = "ok"
              /\ \A o \in Active : models[o].created_at <= models[resp.id].created_at
        /\ (Deployed = {} /\ Active = {})
           => (resp.id = NoId /\ resp.result = "not_found")

\* C10 witness: the deployed v1 is answered although a newer active model exists
C10_Witness ==
    /\ resp.op = "get_latest" /\ resp.id # NoId
    /\ models[resp.id].is_deployed /\ models[resp.id].is_active
    /\ \E o \in Active : /\ ~models[o].is_deployed /\ models[o].status = "completed"
                         /\ models[o].created_at > models[resp.id].created_at

\* C11: GET /check-update answers no update and no candidate when no model is
\* deployed or active; otherwise its candidate is the deployed model, else the
\* newest active one (the answer of GET /latest), update_available is true only
\* when the candidate's version differs from current_version and the candidate
\* is compatible with app_version, and it is false on the candidate's version.
C11_CheckForUpdate ==
    resp.op = "check_update" =>
        /\ (Deployed = {} /\ Active = {})
           => (resp.id = NoId /\ ~resp.update_available /\ resp.latest_version = "")
        /\ Deployed # {} => resp.id \in Deployed
        /\ (Deployed = {} /\ Active # {})
           => /\ resp.id \in Active
              /\ \A o \in Active : models[o].created_at <= models[resp.id].created_at
        /\ resp.id # NoId =>
              /\ resp.latest_version = models[resp.id].version
              /\ resp.update_available <=>
                    /\ models[resp.id].version # resp.current_version
                    /\ \/ models[resp.id].min_app_version = <<>>
                       \/ resp.app_version = <<>>
                       \/ ~StrLess(resp.app_version, models[resp.id].min_app_version)
              /\ (models[resp.id].version # resp.current_version /\ ~resp.update_available)
                 => resp.release_notes = "requires_app_version"

\* C11 witness: the deployed 1.0.0 is the candidate of a client on 2.0.0 although
\* a newer active model exists, and the update is advertised
C11_Witness ==
    /\ resp.op = "check_update" /\ resp.id # NoId /\ resp.update_available
    /\ models[resp.id].is_deployed /\ resp.current_version = "2.0.0"
    /\ \E o \in Active : models[o].created_at > models[resp.id].created_at

\* C11 second witness: app 10.0.0 is refused a model that requires 2.0.0
C11_WitnessIncompatible ==
    /\ resp.op = "check_update" /\ resp.id # NoId /\ ~resp.update_available
    /\ resp.release_notes = "requires_app_version"
    /\ resp.app_version = V_10_0_0 /\ models[resp.id].min_app_version = V_2_0_0

\* C12 as claimed: under every operation, delete of a model version included, a
\* sample id of the used set stays in the used set.
C12_UsedNeverShrinks ==
    [][UsedIds \subseteq UsedIds']_vars

\* C12 amended: the used set loses ids only in a successful delete of a model
\* version, which leaves the ids of the sessions of the other models; under
\* every other operation, archive included, it never shrinks.
C12_UsedShrinksOnlyByDelete ==
    [][\/ UsedIds \subseteq UsedIds'
       \/ /\ resp'.op = "delete" /\ resp'.result = "ok"
          /\ sessions' = {s \in sessions : s.model_version_id # resp'.id}
      ]_vars

\* C12 witness: a trained model was archived and its samples are still used
C12_Witness ==
    \E m \in ModelIds :
        /\ resp = Response("archive", m, "ok")
        /\ SessionOf(m) # {}
        /\ \A s \in SessionOf(m) : s.farm_data_ids # {} /\ s.farm_data_ids \subseteq UsedIds

FloorAtFetch ==
    [][\A t \in TaskIds :
         (pc[t] = "fetch" /\ pc'[t] # "fetch")
         => /\ Cardinality(unused_data_ids'[t]) >= MIN_SAMPLES
               => (pc'[t] = "process" /\ ~raised'[t])
            /\ Cardinality(unused_data_ids'[t]) < MIN_SAMPLES
               => (pc'[t] = "except" /\ raised'[t])
    ]_vars

\* C14 as claimed: a retrain request made while the unused pool is below the
\* floor fails and leaves no task; a run whose pool reaches the floor passes
\* the floor check.
C14_RequestBelowFloorFails ==
    [][/\ (/\ resp'.op = "retrain" /\ resp'.base_model_id \in ModelIds
           /\ models[resp'.base_model_id].exists
           /\ models[resp'.base_model_id].status = "completed"
           /\ get_model_by_version(resp'.new_version) = {}
           /\ Cardinality(get_unused_farm_data) < MIN_SAMPLES)
          => (resp'.result # "accepted" /\ tasks' = tasks)
       /\ \A t \in TaskIds :
            (pc[t] = "fetch" /\ pc'[t] # "fetch"
             /\ Cardinality(unused_data_ids'[t]) >= MIN_SAMPLES)
            => pc'[t] = "process"
    ]_vars

\* C15 as claimed: a retrain request whose base model exists with a status
\* other than COMPLETED is rejected and leaves the task ledger unchanged.
C15_BaseNotCompletedRejected ==
    [][\A b \in ModelIds :
         (resp'.op = "retrain" /\ resp'.base_model_id = b
          /\ models[b].exists /\ models[b].status # "completed")
         => (resp'.result # "accepted" /\ tasks' = tasks)
    ]_vars

\* The accepted half of the retrain request: a non-empty base_model_id, whatever
\* it names, gets exactly one new PENDING task and its id, with the thread at
\* its first statement
RetrainCreatesPendingTask ==
    [][(resp'.op = "retrain" /\ resp'.base_model_id \notin {Missing, NoId})
       => /\ resp'.result = "accepted"
          /\ ~tasks[resp'.id].exists
          /\ tasks' = [tasks EXCEPT ![resp'.id] =
                [NoTask EXCEPT !.exists = TRUE,
                               !.base_model_id = resp'.base_model_id,
                               !.new_version = resp'.new_version]]
          /\ pc'[resp'.id] = "start"
    ]_vars

\* C16 as claimed: a retrain request without base_model_id, or with an empty
\* one, fails as a client-input error and creates no task; with a non-empty one
\* it creates exactly one task, PENDING, answers its id, and no stage of the
\* pipeline has run.
C16_RetrainRequest ==
    [][resp'.op = "retrain" =>
         /\ resp'.base_model_id \in {Missing, NoId}
            => (resp'.result \in {"unprocessable", "bad_request"} /\ tasks' = tasks)
         /\ resp'.base_model_id \notin {Missing, NoId}
            => /\ resp'.result = "accepted"
               /\ ~tasks[resp'.id].exists
               /\ tasks' = [tasks EXCEPT ![resp'.id] =
                     [NoTask EXCEPT !.exists = TRUE,
                                    !.base_model_id = resp'.base_model_id,
                                    !.new_version = resp'.new_version]]
               /\ tasks'[resp'.id].status = "pending"
               /\ pc'[resp'.id] = "start"
    ]_vars
\* C17: notify_training_updated(task_id) wakes the waiters if and only if
\* task_id is in the active set of the bus: for an active id the event is set
\* and every consumer in wait_for_update is woken; for an id never started or
\* already completed the event and every consumer are left as they were
C17_UpdatedWakesIffActive ==
    [][resp'.op = "updated" =>
          IF resp'.id \in active_tasks
          THEN /\ event'
               /\ \A c \in Consumers : cpc[c] = "waiting" => cpc'[c] = "woken"
          ELSE /\ event' = event
               /\ cpc' = cpc
               /\ active_tasks' = active_tasks]_vars

\* notify_training_updated has run for a task that completed before, with a
\* consumer in wait_for_update and no event set
C17_Witness ==
    /\ resp.op = "updated"
    /\ resp.id \notin active_tasks
    /\ ~event
    /\ \E c \in Consumers : cpc[c] = "waiting" /\ waited[c] = 0

\* notify_training_updated has run for an active task and woken a consumer
C17_WitnessActive ==
    /\ resp.op = "updated"
    /\ resp.id \in active_tasks
    /\ event
    /\ \E c \in Consumers : cpc[c] = "woken"

\* C18: every notification wakes every connected consumer: the wait_for_update
\* call a consumer has in progress at the notification, or the next one it
\* issues, returns True; no such call of a consumer that is owed a wake ends
\* with the timeout, whichever consumer cleared the event first
C18_EveryConsumerWoken ==
    [][\A c \in Consumers :
          (cpc[c] = "waiting" /\ cpc'[c] = "yielding") => ~owed[c]]_vars

\* C19: on every wake of a stream consumer (event or timeout) a task's
\* snapshot is emitted only when its tuple (status, progress, epoch, stage)
\* differs from the tuple last emitted to that consumer, and the snapshot
\* carries the tuple of the ledger; a task read with a different tuple is
\* emitted; a timeout wake with the tuple unchanged emits nothing for the task
C19_EmitOnlyOnChange ==
    [][\A c \in Consumers :
          (\/ cpc[c] = "woken" /\ cpc'[c] \in {"waiting", "yielding"}
           \/ cpc[c] = "waiting" /\ cpc'[c] = "yielding")
          => /\ \A e \in out'[c].data :
                  /\ e[2] # last_emitted[c][e[1]]
                  /\ e[2] = TaskState(e[1])
                  /\ last_emitted'[c][e[1]] = e[2]
             /\ \A t \in all_tasks :
                  IF TaskState(t) # last_emitted[c][t]
                  THEN <<t, TaskState(t)>> \in out'[c].data
                  ELSE /\ \A e \in out'[c].data : e[1] # t
                       /\ last_emitted'[c][t] = last_emitted[c][t]
             /\ out'[c].heartbeat = (cpc[c] = "waiting")]_vars

\* The consumer emitted the snapshot of a training epoch and a later timeout
\* wake, with the ledger unchanged, yielded the heartbeat alone
C19_Witness ==
    \E c \in Consumers, t \in TaskIds :
        /\ cpc[c] = "yielding"
        /\ out[c] = [data |-> {}, heartbeat |-> TRUE]
        /\ t \in all_tasks
        /\ TaskState(t) = last_emitted[c][t]
        /\ last_emitted[c][t].current_stage = "Training epoch"
        /\ last_emitted[c][t].current_epoch = MaxEpochs
        /\ last_emitted[c][t].progress_percentage = 80

\* The consumer was woken by the event and emits the snapshot of the epoch
C19_WitnessEmitted ==
    \E c \in Consumers, t \in TaskIds :
        /\ cpc[c] = "yielding"
        /\ ~out[c].heartbeat
        /\ <<t, [status |-> "running", progress_percentage |-> 80,
                 current_epoch |-> MaxEpochs, current_stage |-> "Training epoch"]>>
              \in out[c].data

\* C20: a connected consumer eventually emits the snapshot of a task with its
\* terminal status once the ledger holds COMPLETED or FAILED for the task
C20_TerminalEventuallyEmitted ==
    \A c \in Consumers, t \in TaskIds :
        (cpc[c] # "off" /\ tasks[t].exists /\ tasks[t].status \in {"completed", "failed"})
            ~> (last_emitted[c][t].status \in {"completed", "failed"})

\* C20 as the code has it: the terminal snapshot is eventually emitted unless
\* the row of the task is deleted with its result model before the consumer
\* reads it
C20_TerminalEmittedUnlessDeleted ==
    \A c \in Consumers, t \in TaskIds :
        (cpc[c] # "off" /\ tasks[t].exists /\ tasks[t].status \in {"completed", "failed"})
            ~> (last_emitted[c][t].status \in {"completed", "failed"} \/ ~tasks[t].exists)

\* The wake was missed: the terminal snapshot is emitted by a pass that
\* followed a timeout, before notify_training_completed has run
C20_Witness ==
    \E c \in Consumers, t \in TaskIds :
        /\ cpc[c] = "yielding"
        /\ out[c].heartbeat
        /\ t \in active_tasks
        /\ \E e \in out[c].data : e[1] = t /\ e[2].status \in {"completed", "failed"}

C21_WitnessDeployed ==
    /\ resp.op = "delete" /\ resp.result = "invalid_state"
    /\ models[resp.id].is_deployed

\* C22: no two rows of model_versions share a version, also when two training
\* runs for the same new_version pass the existence check of the validation
\* concurrently; the run that flushes second adds no row
C22_VersionUnique ==
    \A m, o \in ExistingModels : models[m].version = models[o].version => m = o

\* Two runs for one version passed the validation; one committed its model and
\* the INSERT of the other failed on the unique index
C22_Witness ==
    \E t, o \in TaskIds :
        /\ t # o
        /\ tasks[t].exists /\ tasks[o].exists
        /\ tasks[t].new_version = tasks[o].new_version
        /\ get_model_by_version(tasks[t].new_version) # {}
        /\ sess[o] = "inactive"
        /\ raised[o]

\* The ledger holds at least the progress every queued or running update
\* notification follows
LedgerAheadOfNotifications ==
    /\ \A t \in TaskIds : \A i \in 1..Len(loop_queue[t]) :
          (loop_queue[t][i].coro = "updated" /\ tasks[t].exists)
              => tasks[t].progress_percentage >= loop_queue[t][i].percentage
    /\ (resp.op = "updated" /\ tasks[resp.id].exists)
          => tasks[resp.id].progress_percentage >= resp.percentage

\* The positions of the thread at which update_progress is called
UpdatePoints == {"validate", "fetch", "process", "train", "persist"}

\* A step of a training thread while the hand-off to the event loop fails:
\* nothing is queued, the ledger write of the step is committed and the thread
\* goes where it goes when the hand-off succeeds
HandoffFailureSwallowed ==
    \A t \in TaskIds :
        (loop_closed /\ (pc'[t] # pc[t] \/ tasks'[t] # tasks[t]))
        => /\ loop_queue' = loop_queue
           /\ pc[t] = "start"
                => pc'[t] = "validate" /\ tasks'[t].status = "running"
           /\ pc[t] \in UpdatePoints
                => /\ tasks'[t] # tasks[t]
                   /\ tasks'[t].status = tasks[t].status
                   /\ pc'[t] = "except" => raised'[t]
           /\ (pc[t] = "log" /\ models[new_model[t]].exists)
                => pc'[t] = "done" /\ tasks'[t] = tasks[t]
           /\ (pc[t] = "except" /\ sess[t] # "inactive")
                => pc'[t] = "done" /\ tasks'[t].status = "failed"

\* C23: update_progress commits the ledger write before it hands the
\* notification to the event loop, so the ledger is at least as recent as any
\* notification that is queued or running; and a failing hand-off of started,
\* updated or completed changes neither the ledger nor the course of the run
C23_CommitThenBestEffortNotify ==
    []LedgerAheadOfNotifications /\ [][HandoffFailureSwallowed]_vars

\* A run completed although no hand-off succeeded: the bus never heard of it
C23_Witness ==
    \E t \in TaskIds :
        /\ loop_closed
        /\ pc[t] = "done"
        /\ tasks[t].status = "completed"
        /\ tasks[t].progress_percentage = 100
        /\ loop_queue[t] = <<>>
        /\ active_tasks = {}
        /\ ~event

\* An update notification runs on the loop after the ledger has moved on
C23_WitnessNotified ==
    /\ resp.op = "updated"
    /\ tasks[resp.id].progress_percentage > resp.percentage
    /\ event

\* The percentage that train_model writes with each stage name
StageProgress(stage) ==
    CASE stage = "Validating base model" -> {5}
      [] stage = "Fetching training data" -> {10}
      [] stage = "Processing features" -> {15}
      [] stage = "Cleaning and preprocessing data" -> {17}
      [] stage = "Splitting and scaling data" -> {20}
      [] stage = "Scaling features" -> {22}
      [] stage = "Preparing model" -> {25}
      [] stage = "Training model" -> {30}
      [] stage = "Training epoch" -> 31..80
      [] stage = "Evaluating model" -> {82}
      [] stage = "Converting and saving models" -> {85}
      [] stage = "Uploading models to cloud storage" -> {90}
      [] stage = "Saving model metadata" -> {95}
      [] stage = "Training completed" -> {100}
      [] OTHER -> {}

\* C24: the progress percentage of a task never decreases and stays within
\* 0..100; every write of it is one of the checkpoints 5, 10, 15, 17, 20, 22,
\* 25, 30, 82, 85, 90, 95 (with its stage) or 100 at completion, or an epoch
\* update inside (30, 80] whatever the epoch budget (at least 1); the step that
\* records a failure leaves it where it was.
C24_ProgressMonotone ==
    [][\A t \in TaskIds :
         (tasks[t].exists /\ tasks'[t].exists) =>
           /\ tasks[t].progress_percentage <= tasks'[t].progress_percentage
           /\ tasks'[t].progress_percentage \in 0..100
           /\ tasks'[t].current_stage # tasks[t].current_stage
                => \/ tasks'[t].progress_percentage \in StageProgress(tasks'[t].current_stage)
                   \/ /\ tasks'[t].current_stage = "Initializing training"
                      /\ tasks'[t].progress_percentage = 0
           /\ tasks'[t].current_epoch # tasks[t].current_epoch
                => /\ epochs[t] >= 1
                   /\ tasks'[t].current_epoch \in 1..epochs[t]
                   /\ tasks'[t].progress_percentage > 30
                   /\ tasks'[t].progress_percentage <= 80
                   /\ (tasks'[t].current_epoch = epochs[t]
                         => tasks'[t].progress_percentage = 80)
           /\ (tasks'[t].status = "failed" /\ tasks[t].status # "failed")
                => tasks'[t].progress_percentage = tasks[t].progress_percentage
      ]_vars

\* C24 witness: a run with the largest epoch budget went through every epoch
\* and every later checkpoint and is completed at 100
C24_Witness ==
    \E t \in TaskIds :
        /\ pc[t] = "log"
        /\ epochs[t] = MaxBudget
        /\ tasks[t].current_epoch = MaxBudget
        /\ tasks[t].status = "completed"
        /\ tasks[t].progress_percentage = 100

\* C24 witness: a run failed while its model was converted and keeps the
\* percentage of that checkpoint
C24_WitnessFailed ==
    \E t \in TaskIds :
        /\ tasks[t].status = "failed"
        /\ tasks[t].current_stage = "Converting and saving models"
        /\ tasks[t].progress_percentage = 85

\* C25 as claimed: the row count is validated against the floor after
\* cleaning, so a run never splits, trains or persists with fewer rows than
\* the floor.
C25_FloorHeldAfterCleaning ==
    \A t \in TaskIds :
        pc[t] \in {"split", "scale", "prepare", "fit", "train", "convert", "upload",
                   "persist", "session", "finalize", "log"}
        => Cardinality(df[t]) >= MIN_SAMPLES

\* The floor does hold of the rows before cleaning
C25_FloorHeldBeforeCleaning ==
    \A t \in TaskIds : pc[t] = "clean" => Cardinality(df[t]) >= MIN_SAMPLES

C26_ConcurrentDeploysKeepOne ==
    /\ Cardinality(Deployed) <= 1
    /\ (/\ \A r \in Requests : txn[r].state # "open"
        /\ \E r \in Requests : txn[r].state = "committed")
       => Cardinality(Deployed) = 1

\* The part of C26 that holds: no commit of a deploy leaves the table without
\* a deployed model when it had one
C26_NeverZeroDeployed ==
    [][Deployed # {} => Deployed' # {}]_vars

C29_LatestIsActive ==
    (resp.op \in {"get_latest", "check_update"} /\ resp.id # NoId)
    => models[resp.id].is_active

\* The part of C29 that holds: an archived model is never returned
C29_ArchivedNeverReturned ==
    (resp.op \in {"get_latest", "check_update"} /\ resp.id # NoId)
    => models[resp.id].status # "archived"

\* C30 as claimed: once every training thread has ended and the event loop has
\* run every notification the threads scheduled, the active set of the bus is
\* empty: each id added by notify_training_started was removed by
\* notify_training_completed, on the success path and on every failure path.
C30_ActiveSetDrained ==
    (\A t \in TaskIds : pc[t] \in {"idle", "done"} /\ loop_queue[t] = <<>>)
    => active_tasks = {}

\* The part of C30 that holds: a task whose run ended with COMPLETED or FAILED
\* in the ledger is not in the active set once its notifications have run
C30_TerminalTasksLeave ==
    \A t \in TaskIds :
        (pc[t] = "done" /\ loop_queue[t] = <<>> /\ tasks[t].status \in {"completed", "failed"})
        => t \notin active_tasks
====
